---- MODULE Spec2Model ----
(***************************************************************************)
(* Gallery state, persistence and prompt rotation of the anime wallpaper   *)
(* generator (src/index.tsx).  The page is single threaded: every action   *)
(* below is one event handler, or one promise continuation, run to its     *)
(* end; the only suspension point is the image generation request.         *)
(***************************************************************************)
EXTENDS Integers, Sequences, FiniteSets, TLC

(* ------------------------------ bounds --------------------------------- *)
\* Number of entries of PROMPT_POOL the model keeps (the source lists 12).
PoolSize == 4
\* Number of outcomes of the random shuffle the model explores.
MaxShuffle == 1
\* Largest value Date.now() returns.
MaxClock == 1
\* Number of requests of the demo batch: demoCount of generateLiveDemos, which the
\* source sets to 4.
demoCount == 2
\* Number of user events (submit, prompt click, ratio click, reload) in a run.
MaxUserEvents == 2

(* ------------------------- program constants --------------------------- *)
AspectRatio == {"9:16", "1:1", "16:9"}

FullPool ==
  << "Epic anime warrior under the moonlight",
     "Cute anime girl with cherry blossoms",
     "A futuristic cityscape in anime style",
     "Magical girl casting a powerful spell",
     "Steampunk airship flying through clouds",
     "A samurai warrior in a neon-lit Tokyo street",
     "Anime character enjoying a bowl of ramen",
     "A serene Japanese garden with a pagoda",
     "Gundam-style mech in a dynamic pose",
     "A ninja moving silently through the shadows",
     "Fantasy knight with a glowing sword",
     "Cyberpunk hacker in a high-tech hideout" >>

PROMPT_POOL == SubSeq(FullPool, 1, PoolSize)

\* slice(0, 3) in initializeApp: the size of the rotating prompt set
demoPromptCount == 3

\* The three keys of localStorage that hold the galleries.
Keys == {"userHistory", "demoHistory", "allGenerations"}

(* ----------------------------- sequences ------------------------------- *)
Min(a, b) == IF a < b THEN a ELSE b

Range(s) == {s[i] : i \in DOMAIN s}

RECURSIVE Reverse(_)
Reverse(s) == IF s = <<>> THEN <<>> ELSE Append(Reverse(Tail(s)), Head(s))

RECURSIVE Flatten(_)
Flatten(ss) == IF ss = <<>> THEN <<>> ELSE Head(ss) \o Flatten(Tail(ss))

\* Array.prototype.indexOf, 1-based; 0 stands for -1
IndexOf(s, x) ==
  IF x \in Range(s) THEN CHOOSE i \in DOMAIN s : s[i] = x /\ \A j \in 1..(i-1) : s[j] # x
  ELSE 0

\* Array.prototype.slice(0, n)
Slice0(s, n) == SubSeq(s, 1, Min(n, Len(s)))

(* ------------------------------ strings -------------------------------- *)
WhiteSpace == {" ", "\t", "\n", "\r"}

RECURSIVE TrimStart(_)
TrimStart(s) ==
  IF s = "" THEN s
  ELSE IF SubSeq(s, 1, 1) \in WhiteSpace THEN TrimStart(SubSeq(s, 2, Len(s)))
  ELSE s

RECURSIVE TrimEnd(_)
TrimEnd(s) ==
  IF s = "" THEN s
  ELSE IF SubSeq(s, Len(s), Len(s)) \in WhiteSpace THEN TrimEnd(SubSeq(s, 1, Len(s) - 1))
  ELSE s

\* A submit that does not trim
Trim_none(s) == s

\* String.prototype.trim
Trim(s) == TrimEnd(TrimStart(s))

\* Number.prototype.toString on a non-negative integer
NumToString(n) == ToString(n)

Digits == {"0", "1", "2", "3", "4", "5", "6", "7", "8", "9"}

DigitValue(c) == CHOOSE d \in 0..9 : ToString(d) = c

IsNumeral(s) == /\ s # ""
                /\ \A i \in 1..Len(s) : SubSeq(s, i, i) \in Digits
                /\ (Len(s) > 1 => SubSeq(s, 1, 1) # "0")

RECURSIVE NumeralValue(_)
NumeralValue(s) ==
  IF s = "" THEN 0
  ELSE 10 * NumeralValue(SubSeq(s, 1, Len(s) - 1)) + DigitValue(SubSeq(s, Len(s), Len(s)))

(* ------------------------------- JSON ---------------------------------- *)
(* A JSON text is a sequence of tokens, each a string: the punctuation     *)
(* [ ] { } : , then string literals (quoted and escaped) and numerals.     *)

\* Whether s holds none of the characters of cs
Without(s, cs) == \A i \in 1..Len(s) : SubSeq(s, i, i) \notin cs

RECURSIVE Escape(_)
Escape(s) ==
  IF Without(s, {"\"", "\\"}) THEN s
  ELSE LET c == SubSeq(s, 1, 1)
       IN  (IF c \in {"\"", "\\"} THEN "\\" \o c ELSE c) \o Escape(SubSeq(s, 2, Len(s)))

\* A string written between quotes as it is
Quote_raw(s) == "\"" \o s \o "\""

\* The token of a string value
Quote(s) == "\"" \o Escape(s) \o "\""

\* Whether the characters between the quotes are well escaped
RECURSIVE WellEscaped(_)
WellEscaped(b) ==
  IF Without(b, {"\"", "\\"}) THEN TRUE
  ELSE LET c == SubSeq(b, 1, 1)
       IN  IF c = "\"" THEN FALSE
           ELSE IF c = "\\"
                THEN /\ Len(b) >= 2
                     /\ SubSeq(b, 2, 2) \in {"\"", "\\"}
                     /\ WellEscaped(SubSeq(b, 3, Len(b)))
                ELSE WellEscaped(SubSeq(b, 2, Len(b)))

RECURSIVE Unescape(_)
Unescape(b) ==
  IF Without(b, {"\\"}) THEN b
  ELSE IF SubSeq(b, 1, 1) = "\\"
       THEN SubSeq(b, 2, 2) \o Unescape(SubSeq(b, 3, Len(b)))
       ELSE SubSeq(b, 1, 1) \o Unescape(SubSeq(b, 2, Len(b)))

IsStringToken(t) == /\ Len(t) >= 2
                    /\ SubSeq(t, 1, 1) = "\""
                    /\ SubSeq(t, Len(t), Len(t)) = "\""
                    /\ WellEscaped(SubSeq(t, 2, Len(t) - 1))

Unquote(t) == Unescape(SubSeq(t, 2, Len(t) - 1))

\* JSON.stringify of one Wallpaper: its own properties in creation order
StringifyWallpaper(w) ==
  << "{", Quote("id"), ":", Quote(w.id),
     ",", Quote("prompt"), ":", Quote(w.prompt),
     ",", Quote("imageUrl"), ":", Quote(w.imageUrl),
     ",", Quote("aspectRatio"), ":", Quote(w.aspectRatio),
     ",", Quote("timestamp"), ":", NumToString(w.timestamp),
     ",", Quote("source"), ":", Quote(w.source), "}" >>

RECURSIVE StringifyItems(_)
StringifyItems(list) ==
  IF list = <<>> THEN <<>>
  ELSE IF Len(list) = 1 THEN StringifyWallpaper(list[1])
  ELSE StringifyWallpaper(list[1]) \o <<",">> \o StringifyItems(Tail(list))

\* JSON.stringify of a Wallpaper[]
JSONstringify(list) == <<"[">> \o StringifyItems(list) \o <<"]">>

(* JSON.parse of a text that should hold an array of flat objects:         *)
(*   text    ::=  "[" "]"  |  "[" object ("," object)* "]"                 *)
(*   object  ::=  "{" "}"  |  "{" member ("," member)* "}"                 *)
(*   member  ::=  string ":" (string | numeral)                            *)
(* A string token never equals a punctuation token, so the braces of the   *)
(* text are the braces of its objects.                                     *)

\* The positions of the token t in toks, in increasing order
Positions(toks, t) == SelectSeq([i \in 1..Len(toks) |-> i], LAMBDA i : toks[i] = t)

\* Whether the tokens strictly between positions a and b are the members of
\* an object
MembersOk(toks, a, b) ==
  LET m == b - a - 1
  IN  /\ m = 0 \/ m % 4 = 3
      /\ \A j \in 1..m :
           CASE j % 4 = 1 -> IsStringToken(toks[a + j])
             [] j % 4 = 2 -> toks[a + j] = ":"
             [] j % 4 = 3 -> IsStringToken(toks[a + j]) \/ IsNumeral(toks[a + j])
             [] OTHER     -> toks[a + j] = ","

\* The value a scalar token stands for
ScalarValue(tok) == IF IsNumeral(tok) THEN NumeralValue(tok) ELSE Unquote(tok)

\* The object whose members lie strictly between positions a and b; of two
\* members with the same key the later one counts
ObjectAt(toks, a, b) ==
  LET keyAt == {a + j : j \in {i \in 1..(b - a - 1) : i % 4 = 1}}
      last(k) == CHOOSE p \in keyAt :
                   /\ Unquote(toks[p]) = k
                   /\ \A q \in keyAt : Unquote(toks[q]) = k => q <= p
  IN  [k \in {Unquote(toks[p]) : p \in keyAt} |-> ScalarValue(toks[last(k) + 2])]

\* JSON.parse: ok is FALSE where it throws a SyntaxError, else val is the array
JSONparse(toks) ==
  LET n      == Len(toks)
      opens  == Positions(toks, "{")
      closes == Positions(toks, "}")
      count  == Len(opens)
      ok     == /\ n >= 2 /\ toks[1] = "[" /\ toks[n] = "]"
                /\ Len(closes) = count
                /\ IF count = 0 THEN n = 2
                   ELSE /\ opens[1] = 2
                        /\ closes[count] = n - 1
                        /\ \A k \in 1..count :
                             /\ opens[k] < closes[k]
                             /\ MembersOk(toks, opens[k], closes[k])
                        /\ \A k \in 1..(count - 1) :
                             /\ opens[k + 1] = closes[k] + 2
                             /\ toks[closes[k] + 1] = ","
  IN  [ok  |-> ok,
       val |-> IF ok THEN [k \in 1..count |-> ObjectAt(toks, opens[k], closes[k])]
               ELSE <<>>]

(* ------------------------------ state ---------------------------------- *)
VARIABLES
  phase,                \* "boot": module evaluated, DOMContentLoaded not yet handled;
                        \* "running": initializeApp returned, handlers installed;
                        \* "crashed": initializeApp threw, no handler installed
  history,              \* let history: Wallpaper[]
  demoHistory,          \* let demoHistory: Wallpaper[]
  allGenerations,       \* let allGenerations: Wallpaper[]
  demoPrompts,          \* let demoPrompts: string[]
  selectedAspectRatio,  \* let selectedAspectRatio: AspectRatio
  promptInput,          \* promptInput.value
  localStorage,         \* the store: key -> JSON text; an absent key is outside DOMAIN
  now,                  \* the last value Date.now() returned
  pending,              \* handleFormSubmit calls suspended at await generateWallpaper
  demoBatch,            \* the promises of generateLiveDemos, by index
  historyGrid,          \* children of historyGrid, first child first
  demoGrid,             \* children of demoGrid
  disabled,             \* generateBtn.disabled
  toast,                \* errorToast has class "show"
  refreshing,           \* slot refreshDemoPrompt is resampling (0: not in the loop)
  saves,                \* number of saveData calls so far
  userEvents            \* number of user events so far

vars == << phase, history, demoHistory, allGenerations, demoPrompts, selectedAspectRatio,
           promptInput, localStorage, now, pending, demoBatch, historyGrid, demoGrid,
           disabled, toast, refreshing, saves, userEvents >>

\* The in-memory galleries
lists == << history, demoHistory, allGenerations >>

(* --------------------------- environment ------------------------------- *)
\* What the user types into the prompt field (it is empty when the page loads)
Inputs == {"  ", " a\"b "}

\* imageBytes of a successful response
ImageBytes == {"QUJD"}

\* The result of generateWallpaper: <<>> stands for null
ImageResults == {<<>>} \cup {<<"data:image/jpeg;base64," \o b>> : b \in ImageBytes}

\* Date.now() does not go back: it returns the last value or a later one
DateNow(t) == {u \in {t, t + 1} : u <= MaxClock}

RECURSIVE Rotation(_, _)
Rotation(s, k) == IF k = 0 \/ s = <<>> THEN s ELSE Rotation(Append(Tail(s), Head(s)), k - 1)

\* [...PROMPT_POOL].sort(() => 0.5 - Math.random()): some permutation of the
\* pool; the model explores MaxShuffle of them
Shuffles == {Rotation(PROMPT_POOL, k) : k \in 0..(MaxShuffle - 1)}

(* ------------------------------- view ---------------------------------- *)
\* createWallpaperCard: node tells the placeholder elements apart
createWallpaperCard(id, aspectRatio, isLoading, node) ==
  [id |-> id, aspectRatio |-> aspectRatio, isLoading |-> isLoading, node |-> node]

\* renderHistory: the grid is emptied, then one card per entity, newest first
renderHistory(list) ==
  LET r == Reverse(list)
  IN  [i \in 1..Len(r) |-> createWallpaperCard(r[i].id, r[i].aspectRatio, FALSE, 0)]

\* A remove() that leaves the element where it is
RemoveNode_none(grid, node) == grid

\* Element.remove(): the element leaves its parent, if it has one
RemoveNode(grid, node) == SelectSeq(grid, LAMBDA c : c.node # node)

(* ---------------------------- persistence ------------------------------ *)
\* localStorage.getItem: <<>> stands for null
GetItem(store, k) == IF k \in DOMAIN store THEN <<store[k]>> ELSE <<>>

\* if (saved): neither null nor the empty string
Truthy(item) == item # <<>> /\ item[1] # <<>>

\* The store after localStorage.setItem(k, text)
SetItem(store, k, text) == [j \in DOMAIN store \cup {k} |-> IF j = k THEN text ELSE store[j]]

\* A save that leaves the demo list out
saveData_partial(h, d, a) ==
  SetItem(SetItem(localStorage, "userHistory", JSONstringify(h)),
          "allGenerations", JSONstringify(a))

\* saveData: the three lists are written under their keys
saveData(h, d, a) ==
  SetItem(SetItem(SetItem(localStorage, "userHistory", JSONstringify(h)),
                  "demoHistory", JSONstringify(d)),
          "allGenerations", JSONstringify(a))

\* loadData on the store, with h, d, a the lists before it: the three keys in
\* turn; a JSON.parse that throws ends the function with the assignments made
\* so far
loadDataFrom(store, h, d, a) ==
  LET sH == GetItem(store, "userHistory")
      sD == GetItem(store, "demoHistory")
      sA == GetItem(store, "allGenerations")
      pH == JSONparse(sH[1])
      pD == JSONparse(sD[1])
      pA == JSONparse(sA[1])
      h1 == IF Truthy(sH) THEN pH.val ELSE h
      d1 == IF Truthy(sD) THEN pD.val ELSE d
      a1 == IF Truthy(sA) THEN pA.val ELSE a
  IN  IF Truthy(sH) /\ ~pH.ok
        THEN [thrown |-> TRUE, history |-> h, demoHistory |-> d, allGenerations |-> a]
      ELSE IF Truthy(sD) /\ ~pD.ok
        THEN [thrown |-> TRUE, history |-> h1, demoHistory |-> d, allGenerations |-> a]
      ELSE IF Truthy(sA) /\ ~pA.ok
        THEN [thrown |-> TRUE, history |-> h1, demoHistory |-> d1, allGenerations |-> a]
      ELSE [thrown |-> FALSE, history |-> h1, demoHistory |-> d1, allGenerations |-> a1]

\* loadData
loadData == loadDataFrom(localStorage, history, demoHistory, allGenerations)

(* ------------------------------ startup -------------------------------- *)
\* The module's top level has run; DOMContentLoaded has not fired
Fresh ==
  /\ phase = "boot"
  /\ history = <<>> /\ demoHistory = <<>> /\ allGenerations = <<>>
  /\ demoPrompts = <<>>
  /\ selectedAspectRatio = "9:16"
  /\ promptInput = ""
  /\ pending = {}
  /\ demoBatch = <<>>
  /\ historyGrid = <<>> /\ demoGrid = <<>>
  /\ disabled = FALSE
  /\ toast = FALSE
  /\ refreshing = 0

\* First visit: nothing is stored yet
Init ==
  /\ Fresh
  /\ localStorage = <<>>
  /\ now = 0
  /\ saves = 0
  /\ userEvents = 0

\* The prompt sent to the service
Decorate(prompt) == prompt \o ", anime style, high resolution, wallpaper"

\* A batch that sends its requests without placeholders
generateLiveDemosStart_bare(initialPrompts) ==
  /\ demoGrid' = demoGrid
  /\ demoBatch' = [i \in 1..Len(initialPrompts) |->
                     [request |-> [prompt |-> Decorate(initialPrompts[i]), aspectRatio |-> "9:16"],
                      prompt |-> initialPrompts[i], settled |-> 0, wallpaper |-> <<>>]]
  /\ disabled' = IF initialPrompts = <<>> THEN disabled ELSE TRUE

\* The placeholders and the requests of generateLiveDemos, up to its await
generateLiveDemosStart(initialPrompts) ==
  /\ demoGrid' = demoGrid \o
                   [i \in 1..demoCount |->
                      createWallpaperCard("demo-" \o NumToString(i - 1), "9:16", TRUE, i)]
  /\ demoBatch' = [i \in 1..Len(initialPrompts) |->
                     [request |-> [prompt |-> Decorate(initialPrompts[i]), aspectRatio |-> "9:16"],
                      prompt |-> initialPrompts[i], settled |-> 0, wallpaper |-> <<>>]]
  /\ disabled' = IF initialPrompts = <<>> THEN disabled ELSE TRUE

\* DOMContentLoaded: initializeApp
initializeApp ==
  /\ phase = "boot"
  /\ LET ld == loadData
     IN  /\ history' = ld.history
         /\ demoHistory' = ld.demoHistory
         /\ allGenerations' = ld.allGenerations
         /\ IF ld.thrown
              THEN /\ phase' = "crashed"
                   /\ UNCHANGED << demoPrompts, demoBatch, historyGrid, demoGrid, disabled >>
              ELSE /\ phase' = "running"
                   /\ historyGrid' = renderHistory(ld.history)
                   /\ \E s \in Shuffles : demoPrompts' = Slice0(s, demoPromptCount)
                   /\ \E s \in Shuffles : generateLiveDemosStart(Slice0(s, demoCount))
  /\ UNCHANGED << selectedAspectRatio, promptInput, localStorage, now, pending, toast,
                  refreshing, saves, userEvents >>

\* No continuation is waiting in the microtask queue: a new task (a user
\* event, a timer, a response of the service) only starts then
Quiet == \A c \in pending : c.returned = <<>>

\* The page is loaded again: the script starts over, the store stays
Reload ==
  /\ Quiet
  /\ userEvents < MaxUserEvents
  /\ userEvents' = userEvents + 1
  /\ phase' = "boot"
  /\ history' = <<>> /\ demoHistory' = <<>> /\ allGenerations' = <<>>
  /\ demoPrompts' = <<>>
  /\ selectedAspectRatio' = "9:16"
  /\ promptInput' = ""
  /\ pending' = {}
  /\ demoBatch' = <<>>
  /\ historyGrid' = <<>> /\ demoGrid' = <<>>
  /\ disabled' = FALSE
  /\ toast' = FALSE
  /\ refreshing' = 0
  /\ UNCHANGED << localStorage, now, saves >>

(* ------------------------------ submit --------------------------------- *)
\* handleFormSubmit up to its await: nothing for a blank prompt, else the
\* placeholder card and the request
handleFormSubmit(value) ==
  LET prompt == Trim(value)
      call   == userEvents + 1
  IN  IF prompt = ""
        THEN UNCHANGED << pending, historyGrid, disabled >>
        ELSE /\ historyGrid' =
                  <<createWallpaperCard("temp", selectedAspectRatio, TRUE, call)>> \o historyGrid
             /\ pending' = pending \cup
                  {[call |-> call, prompt |-> prompt,
                    request |-> [prompt |-> Decorate(prompt), aspectRatio |-> selectedAspectRatio],
                    returned |-> <<>>]}
             /\ disabled' = TRUE

\* The user leaves the prompt field as it is or types value, and submits the form
SubmitForm(value) ==
  /\ phase = "running" /\ refreshing = 0 /\ Quiet
  /\ userEvents < MaxUserEvents
  /\ userEvents' = userEvents + 1
  /\ promptInput' = value
  /\ handleFormSubmit(value)
  /\ UNCHANGED << phase, history, demoHistory, allGenerations, demoPrompts, selectedAspectRatio,
                  localStorage, now, demoBatch, demoGrid, toast, refreshing, saves >>

\* A push that adds the entity twice
pushHistory_twice(w) == history \o <<w, w>>

\* history.push(newWallpaper)
pushHistory(w) == Append(history, w)

\* A commit that leaves the combined list out
pushAllGenerations_skipped(w) == allGenerations

\* An unshift in the place of the push
pushAllGenerations_unshift(w) == <<w>> \o allGenerations

\* allGenerations.push(newWallpaper)
pushAllGenerations(w) == Append(allGenerations, w)

\* The Wallpaper handleFormSubmit builds: two reads of the clock
newWallpaper(prompt, imageUrl, t1, t2) ==
  [id |-> NumToString(t1), prompt |-> prompt, imageUrl |-> imageUrl,
   aspectRatio |-> selectedAspectRatio, timestamp |-> t2, source |-> "user"]

\* The request of call c settles with result r: generateWallpaper runs from
\* its await to its return (catch: showError; finally: setLoading(false)), and
\* the continuation of handleFormSubmit is queued
SettleSubmit(c, r) ==
  /\ phase = "running" /\ refreshing = 0 /\ Quiet
  /\ c \in pending
  /\ pending' = (pending \ {c}) \cup {[c EXCEPT !.returned = <<r>>]}
  /\ disabled' = FALSE
  /\ toast' = IF r = <<>> THEN TRUE ELSE toast
  /\ UNCHANGED << phase, history, demoHistory, allGenerations, demoPrompts, selectedAspectRatio,
                  promptInput, localStorage, now, demoBatch, historyGrid, demoGrid,
                  refreshing, saves, userEvents >>

\* handleFormSubmit of call c runs from its await to its end, on what
\* generateWallpaper returned
ResumeSubmit(c) ==
  /\ c \in pending
  /\ c.returned # <<>>
  /\ pending' = pending \ {c}
  /\ LET r == c.returned[1]
     IN  IF r = <<>>
           THEN /\ historyGrid' = RemoveNode(historyGrid, c.call)
                /\ UNCHANGED << history, allGenerations, localStorage, saves, promptInput, now >>
           ELSE \E t1 \in DateNow(now) : \E t2 \in DateNow(t1) :
                  LET w == newWallpaper(c.prompt, r[1], t1, t2)
                  IN  /\ now' = t2
                      /\ history' = pushHistory(w)
                      /\ allGenerations' = pushAllGenerations(w)
                      /\ localStorage' = saveData(history', demoHistory, allGenerations')
                      /\ saves' = saves + 1
                      /\ historyGrid' = renderHistory(history')
                      /\ promptInput' = ""
  /\ UNCHANGED << phase, demoHistory, demoPrompts, selectedAspectRatio, demoBatch, demoGrid,
                  disabled, toast, refreshing, userEvents >>

(* ---------------------------- demo batch ------------------------------- *)
\* The Wallpaper the then-callback of request i (0-based) builds
demoWallpaper(i, prompt, imageUrl, t1, t2) ==
  [id |-> "demo-" \o NumToString(t1) \o "-" \o NumToString(i), prompt |-> prompt,
   imageUrl |-> imageUrl, aspectRatio |-> "9:16", timestamp |-> t2, source |-> "demo"]

\* A forEach that stops after the first result
pushDemoHistory_first(results) == demoHistory \o SubSeq(results, 1, Min(1, Len(results)))

\* results.forEach: demoHistory.push(wallpaper)
pushDemoHistory(results) == demoHistory \o results

\* Results put in front of the combined list
pushDemoGenerations_front(results) == results \o allGenerations

\* results.forEach: allGenerations.push(wallpaper)
pushDemoGenerations(results) == allGenerations \o results

\* Results taken last request first
BatchResults_reversed(batch) == Flatten(Reverse([i \in 1..Len(batch) |-> batch[i].wallpaper]))

\* results: what Promise.all resolves to, nulls filtered out
BatchResults(batch) == Flatten([i \in 1..Len(batch) |-> batch[i].wallpaper])

\* An end of the batch that leaves the placeholders in the demo view
generateLiveDemosEnd_append(batch) ==
  LET results == BatchResults(batch)
  IN  /\ demoGrid' = demoGrid \o
                        [i \in 1..Len(results) |->
                           createWallpaperCard(results[i].id, results[i].aspectRatio, FALSE, 0)]
      /\ demoHistory' = pushDemoHistory(results)
      /\ allGenerations' = pushDemoGenerations(results)
      /\ IF Len(results) > 0
           THEN /\ localStorage' = saveData(history, demoHistory', allGenerations')
                /\ saves' = saves + 1
           ELSE UNCHANGED << localStorage, saves >>
      /\ demoBatch' = <<>>

\* generateLiveDemos from its await to its end, on the settled batch
generateLiveDemosEnd(batch) ==
  LET results == BatchResults(batch)
  IN  /\ demoGrid' = [i \in 1..Len(results) |->
                        createWallpaperCard(results[i].id, results[i].aspectRatio, FALSE, 0)]
      /\ demoHistory' = pushDemoHistory(results)
      /\ allGenerations' = pushDemoGenerations(results)
      /\ IF Len(results) > 0
           THEN /\ localStorage' = saveData(history, demoHistory', allGenerations')
                /\ saves' = saves + 1
           ELSE UNCHANGED << localStorage, saves >>
      /\ demoBatch' = <<>>

\* Request i of the batch settles with result r; when it is the last one,
\* Promise.all resolves and generateLiveDemos finishes
SettleDemo(i, r) ==
  /\ phase = "running" /\ refreshing = 0 /\ Quiet
  /\ i \in DOMAIN demoBatch
  /\ demoBatch[i].settled = 0
  /\ disabled' = FALSE
  /\ toast' = IF r = <<>> THEN TRUE ELSE toast
  /\ \E t1 \in DateNow(now) : \E t2 \in DateNow(t1) :
       LET w     == IF r = <<>> THEN <<>>
                    ELSE <<demoWallpaper(i - 1, demoBatch[i].prompt, r[1], t1, t2)>>
           nth   == 1 + Cardinality({j \in DOMAIN demoBatch : demoBatch[j].settled # 0})
           batch == [demoBatch EXCEPT ![i].settled = nth, ![i].wallpaper = w]
       IN  /\ now' = IF r = <<>> THEN now ELSE t2
           /\ (r = <<>> => t1 = now /\ t2 = now)
           /\ IF \A j \in DOMAIN batch : batch[j].settled # 0
                THEN generateLiveDemosEnd(batch)
                ELSE /\ demoBatch' = batch
                     /\ UNCHANGED << demoHistory, allGenerations, localStorage, saves, demoGrid >>
  /\ UNCHANGED << phase, history, demoPrompts, selectedAspectRatio, promptInput, pending,
                  historyGrid, refreshing, userEvents >>

(* ------------------------- other user events --------------------------- *)
\* handleAspectRatioChange on the button of ratio
handleAspectRatioChange(ratio) ==
  /\ phase = "running" /\ refreshing = 0 /\ Quiet
  /\ userEvents < MaxUserEvents
  /\ userEvents' = userEvents + 1
  /\ selectedAspectRatio' = ratio
  /\ UNCHANGED << phase, history, demoHistory, allGenerations, demoPrompts, promptInput,
                  localStorage, now, pending, demoBatch, historyGrid, demoGrid, disabled,
                  toast, refreshing, saves >>

\* refreshDemoPrompt up to its loop: the slot of usedPrompt, if it has one
refreshDemoPrompt(usedPrompt) ==
  /\ refreshing' = IndexOf(demoPrompts, usedPrompt)
  /\ UNCHANGED demoPrompts

\* handleDemoPromptClick on the button that shows prompt
handleDemoPromptClick(prompt) ==
  /\ phase = "running" /\ refreshing = 0 /\ Quiet
  /\ userEvents < MaxUserEvents
  /\ userEvents' = userEvents + 1
  /\ prompt \in Range(demoPrompts)
  /\ promptInput' = prompt
  /\ handleFormSubmit(prompt)
  /\ refreshDemoPrompt(prompt)
  /\ UNCHANGED << phase, history, demoHistory, allGenerations, selectedAspectRatio,
                  localStorage, now, demoBatch, demoGrid, toast, saves >>

\* A loop that only rejects the prompt it replaces
RefreshDraw_otherThanUsed(p) ==
  /\ refreshing # 0
  /\ p \in Range(PROMPT_POOL)
  /\ IF p = demoPrompts[refreshing]
       THEN UNCHANGED << demoPrompts, refreshing >>
       ELSE /\ demoPrompts' = [demoPrompts EXCEPT ![refreshing] = p]
            /\ refreshing' = 0
  /\ UNCHANGED << phase, history, demoHistory, allGenerations, selectedAspectRatio, promptInput,
                  localStorage, now, pending, demoBatch, historyGrid, demoGrid, disabled,
                  toast, saves, userEvents >>

\* A loop that gives up on a prompt that is shown and leaves the set as it is
RefreshDraw_once(p) ==
  /\ refreshing # 0
  /\ p \in Range(PROMPT_POOL)
  /\ demoPrompts' = IF p \in Range(demoPrompts) THEN demoPrompts
                    ELSE [demoPrompts EXCEPT ![refreshing] = p]
  /\ refreshing' = 0
  /\ UNCHANGED << phase, history, demoHistory, allGenerations, selectedAspectRatio, promptInput,
                  localStorage, now, pending, demoBatch, historyGrid, demoGrid, disabled,
                  toast, saves, userEvents >>

\* One turn of the do-while loop of refreshDemoPrompt, drawing p; the loop
\* ends on a prompt that is not shown, which takes the slot
RefreshDraw(p) ==
  /\ refreshing # 0
  /\ p \in Range(PROMPT_POOL)
  /\ IF p \in Range(demoPrompts)
       THEN UNCHANGED << demoPrompts, refreshing >>
       ELSE /\ demoPrompts' = [demoPrompts EXCEPT ![refreshing] = p]
            /\ refreshing' = 0
  /\ UNCHANGED << phase, history, demoHistory, allGenerations, selectedAspectRatio, promptInput,
                  localStorage, now, pending, demoBatch, historyGrid, demoGrid, disabled,
                  toast, saves, userEvents >>

\* The timer of showError fires
ToastTimeout ==
  /\ phase = "running" /\ refreshing = 0 /\ Quiet
  /\ toast
  /\ toast' = FALSE
  /\ UNCHANGED << phase, history, demoHistory, allGenerations, demoPrompts, selectedAspectRatio,
                  promptInput, localStorage, now, pending, demoBatch, historyGrid, demoGrid,
                  disabled, refreshing, saves, userEvents >>

Next ==
  \/ initializeApp
  \/ Reload
  \/ \E value \in Inputs \cup {promptInput} : SubmitForm(value)
  \/ \E c \in pending : \E r \in ImageResults : SettleSubmit(c, r)
  \/ \E c \in pending : ResumeSubmit(c)
  \/ \E i \in DOMAIN demoBatch : \E r \in ImageResults : SettleDemo(i, r)
  \/ \E ratio \in AspectRatio : handleAspectRatioChange(ratio)
  \/ \E prompt \in Range(demoPrompts) : handleDemoPromptClick(prompt)
  \/ \E p \in Range(PROMPT_POOL) : RefreshDraw(p)
  \/ ToastTimeout

Spec == Init /\ [][Next]_vars

\* Every request that was issued settles, every queued continuation runs, and
\* Math.random is fair
SpecLive ==
  /\ Spec
  /\ WF_vars(\E c \in pending : \E r \in ImageResults : SettleSubmit(c, r))
  /\ WF_vars(\E c \in pending : ResumeSubmit(c))
  /\ WF_vars(\E i \in DOMAIN demoBatch : \E r \in ImageResults : SettleDemo(i, r))
  /\ \A p \in Range(PROMPT_POOL) : WF_vars(RefreshDraw(p))

(* ----------------------- startup on a given store ---------------------- *)
\* An entity as an earlier session stored it
StoredWallpaper ==
  [id |-> NumToString(0), prompt |-> PROMPT_POOL[1], imageUrl |-> "data:image/jpeg;base64,QUJD",
   aspectRatio |-> "1:1", timestamp |-> 0, source |-> "user"]

\* What a key of the store may hold when the page loads: the empty string, the
\* text of a list, a text cut short, a text that is no JSON
StoredTexts ==
  { <<>>,
    JSONstringify(<<>>),
    JSONstringify(<<StoredWallpaper>>),
    SubSeq(JSONstringify(<<StoredWallpaper>>), 1, 8),
    <<"undefined">> }

\* The stores: any of the three keys may be absent
Stores == UNION {[ks -> StoredTexts] : ks \in SUBSET Keys}

InitLoad ==
  /\ Fresh
  /\ localStorage \in Stores
  /\ now = 0
  /\ saves = 0
  /\ userEvents = 0

NextLoad == initializeApp

SpecLoad == InitLoad /\ [][NextLoad]_vars

(* --------------------------- prompt rotation --------------------------- *)
\* The rotating sets a startup can produce, for every size of the set
RotatingSets ==
  {Slice0(Rotation(PROMPT_POOL, k), n) : k \in 0..(PoolSize - 1), n \in 1..PoolSize}

InitRotate ==
  /\ phase = "running"
  /\ history = <<>> /\ demoHistory = <<>> /\ allGenerations = <<>>
  /\ demoPrompts \in RotatingSets
  /\ selectedAspectRatio = "9:16"
  /\ promptInput = ""
  /\ localStorage = <<>>
  /\ now = 0
  /\ pending = {}
  /\ demoBatch = <<>>
  /\ historyGrid = <<>> /\ demoGrid = <<>>
  /\ disabled = FALSE
  /\ toast = FALSE
  /\ refreshing = 0
  /\ saves = 0
  /\ userEvents = 0

\* refreshDemoPrompt called on usedPrompt
RotatePrompt(usedPrompt) ==
  /\ phase = "running" /\ refreshing = 0
  /\ refreshDemoPrompt(usedPrompt)
  /\ UNCHANGED << phase, history, demoHistory, allGenerations, selectedAspectRatio, promptInput,
                  localStorage, now, pending, demoBatch, historyGrid, demoGrid, disabled,
                  toast, saves, userEvents >>

NextRotate ==
  \/ \E usedPrompt \in Range(PROMPT_POOL) : RotatePrompt(usedPrompt)
  \/ \E p \in Range(PROMPT_POOL) : RefreshDraw(p)

SpecRotate == InitRotate /\ [][NextRotate]_vars

\* Math.random is fair: a value of the pool that would end the loop is drawn
\* at some turn
SpecRotateFair == SpecRotate /\ \A p \in Range(PROMPT_POOL) : WF_vars(RefreshDraw(p))

(* ------------------------------ properties ----------------------------- *)
\* No character of s is outside white space
IsBlank(s) == \A i \in 1..Len(s) : SubSeq(s, i, i) \in WhiteSpace

\* t is v without the white space at its two ends
IsTrimOf(t, v) ==
  /\ t # ""
  /\ SubSeq(t, 1, 1) \notin WhiteSpace
  /\ SubSeq(t, Len(t), Len(t)) \notin WhiteSpace
  /\ \E i \in 1..Len(v) : /\ i + Len(t) - 1 <= Len(v)
                          /\ SubSeq(v, i, i + Len(t) - 1) = t
                          /\ IsBlank(SubSeq(v, 1, i - 1))
                          /\ IsBlank(SubSeq(v, i + Len(t), Len(v)))

\* The entities of list whose source is src, in the order of list
OfSource(list, src) == SelectSeq(list, LAMBDA w : w.source = src)

\* The ids of list are pairwise different
UniqueIds(list) == \A i, j \in DOMAIN list : list[i].id = list[j].id => i = j

\* C1: in every reachable state the combined list is as long as the user
\* list and the demo list together.
C1_Theorem == Len(allGenerations) = Len(history) + Len(demoHistory)

\* A session that loaded a user entity and a demo entity from the store and
\* whose own demo batch is still running
C1_Witness ==
  /\ phase = "running" /\ userEvents = MaxUserEvents
  /\ history # <<>> /\ demoHistory # <<>> /\ pending = {}
  /\ Len(demoBatch) = demoCount /\ \A i \in DOMAIN demoBatch : demoBatch[i].settled = 0

\* C2: a submit changes no list until its request settles and asks for the
\* trimmed prompt; after a request that succeeds the call appends one entity,
\* of source "user" and with the trimmed prompt, to the user list and the same
\* entity to the combined list; after a request that fails it changes
\* neither; the demo list is never changed by a submit.
C2_Theorem ==
  [][/\ \A value \in Inputs \cup {promptInput} :
          SubmitForm(value) /\ ~IsBlank(value) =>
            /\ UNCHANGED lists
            /\ \E c \in pending' \ pending : pending' = pending \cup {c} /\ IsTrimOf(c.prompt, value)
     /\ \A c \in pending : \A r \in ImageResults : SettleSubmit(c, r) => UNCHANGED lists
     /\ \A c \in pending :
          ResumeSubmit(c) =>
            /\ demoHistory' = demoHistory
            /\ IF c.returned[1] = <<>>
                 THEN history' = history /\ allGenerations' = allGenerations
                 ELSE \E w \in Range(history') :
                        /\ history' = Append(history, w)
                        /\ allGenerations' = Append(allGenerations, w)
                        /\ w.source = "user"
                        /\ w.prompt = c.prompt]_vars

\* Two submits have settled, one with an image and one without
C2_Witness ==
  /\ phase = "running" /\ userEvents = MaxUserEvents /\ pending = {}
  /\ Len(history) = 1 /\ history[1].prompt = "a\"b"
  /\ Len(allGenerations) = 1 + Len(demoHistory)
  /\ saves = 1 + (IF demoHistory = <<>> THEN 0 ELSE 1)
  /\ toast /\ promptInput # ""

\* C3: while requests of the demo batch are outstanding no list changes and
\* nothing is written; when the last of the N requests settles, with K of them
\* successful, the demo list and the combined list each grow by the same K
\* entities of source "demo", the user list is unchanged, and the store is
\* written if and only if K > 0.
C3_Theorem ==
  [][\A i \in DOMAIN demoBatch : \A r \in ImageResults :
       SettleDemo(i, r) =>
         LET N    == Len(demoBatch)
             done == {j \in DOMAIN demoBatch : demoBatch[j].settled # 0} \cup {i}
             K    == Cardinality({j \in DOMAIN demoBatch \ {i} : demoBatch[j].wallpaper # <<>>})
                       + (IF r = <<>> THEN 0 ELSE 1)
             new  == SubSeq(demoHistory', Len(demoHistory) + 1, Len(demoHistory'))
         IN  IF Cardinality(done) < N
               THEN UNCHANGED << lists, localStorage, saves >>
               ELSE /\ Len(new) = K
                    /\ demoHistory' = demoHistory \o new
                    /\ allGenerations' = allGenerations \o new
                    /\ \A k \in DOMAIN new : new[k].source = "demo"
                    /\ history' = history
                    /\ saves' = saves + (IF K > 0 THEN 1 ELSE 0)
                    /\ K = 0 => localStorage' = localStorage
                    /\ K > 0 => /\ DOMAIN localStorage' = Keys
                                /\ localStorage'["demoHistory"] = JSONstringify(demoHistory')]_vars

\* A first batch has finished with one success and one failure
C3_Witness ==
  /\ phase = "running" /\ userEvents = 0 /\ demoBatch = <<>>
  /\ Len(demoHistory) = 1 /\ Len(allGenerations) = 1 /\ saves = 1

\* C4: the user entities of the combined list, in its order, are the user
\* list, and its demo entities, in its order, are the demo list: every entity
\* of either list has one place in the combined list and the order is kept.
C4_Theorem ==
  /\ OfSource(allGenerations, "user") = history
  /\ OfSource(allGenerations, "demo") = demoHistory
  /\ \A i \in DOMAIN allGenerations : allGenerations[i].source \in {"user", "demo"}

\* A user entity, then a demo entity, then another user entity
C4_Witness ==
  /\ Len(allGenerations) >= 3
  /\ allGenerations[1].source = "user"
  /\ allGenerations[2].source = "demo"
  /\ allGenerations[Len(allGenerations)].source = "user"
  /\ allGenerations[1] # allGenerations[Len(allGenerations)]

\* C5: within the user list, within the demo list and within the combined
\* list, no two entities have the same id.
C5_Claim == UniqueIds(history) /\ UniqueIds(demoHistory) /\ UniqueIds(allGenerations)

\* The list loadData(k) fills, after the step
LoadedList(k) ==
  CASE k = "userHistory" -> history'
    [] k = "demoHistory" -> demoHistory'
    [] OTHER             -> allGenerations'

\* C6: at startup a key that is absent, or whose text does not parse, gives an
\* empty list and the other keys are loaded as they are; startup completes
\* and the handlers are installed.
C6_Claim ==
  [][phase = "boot" /\ phase' # "boot" =>
       /\ phase' = "running"
       /\ \A k \in Keys :
            LET item == GetItem(localStorage, k)
            IN  LoadedList(k) = IF Truthy(item) /\ JSONparse(item[1]).ok
                                  THEN JSONparse(item[1]).val
                                  ELSE <<>>]_vars

\* C7: a submit whose prompt is empty or white space changes no list, not the
\* rotating set, not the selected aspect ratio, adds no placeholder, sends no
\* request and writes nothing.
C7_Theorem ==
  [][\A value \in Inputs \cup {promptInput} :
       SubmitForm(value) /\ IsBlank(value) =>
         UNCHANGED << lists, demoPrompts, selectedAspectRatio, historyGrid, demoGrid,
                      pending, demoBatch, localStorage, saves, disabled, toast >>]_vars

\* White space was submitted, and twice nothing but blanks
C7_Witness ==
  /\ phase = "running" /\ userEvents = MaxUserEvents
  /\ promptInput = "  " /\ pending = {} /\ historyGrid = <<>> /\ history = <<>>

\* C8: refreshDemoPrompt on a prompt that is not shown changes nothing; on a
\* prompt that is shown it resamples the slot of that prompt, and when the
\* loop ends the set has the same length, that slot holds a pool value other
\* than the prompt and other than every other slot's value, and the other
\* slots are as they were; the set never holds a value twice.
C8_Theorem ==
  /\ [](\A i, j \in DOMAIN demoPrompts : demoPrompts[i] = demoPrompts[j] => i = j)
  /\ [][\A usedPrompt \in Range(PROMPT_POOL) :
          RotatePrompt(usedPrompt) =>
            /\ demoPrompts' = demoPrompts
            /\ IF usedPrompt \in Range(demoPrompts)
                 THEN refreshing' \in DOMAIN demoPrompts /\ demoPrompts[refreshing'] = usedPrompt
                 ELSE refreshing' = 0]_vars
  /\ [][refreshing # 0 /\ refreshing' = 0 /\ phase' = "running" =>
          /\ Len(demoPrompts') = Len(demoPrompts)
          /\ demoPrompts'[refreshing] \in Range(PROMPT_POOL)
          /\ demoPrompts'[refreshing] # demoPrompts[refreshing]
          /\ \A i \in DOMAIN demoPrompts \ {refreshing} :
               /\ demoPrompts'[i] = demoPrompts[i]
               /\ demoPrompts'[i] # demoPrompts'[refreshing]]_vars

\* A set of the configured size that only a rotation can have produced
C8_Witness ==
  /\ refreshing = 0
  /\ Len(demoPrompts) = demoPromptCount
  /\ demoPrompts \notin RotatingSets

\* C9: when the pool has at least one entry more than the rotating set, the
\* loop of refreshDemoPrompt ends under fair draws; when every entry of the
\* pool is in the set, it never ends.
C9_Theorem ==
  /\ (refreshing # 0 /\ Cardinality(Range(PROMPT_POOL)) >= Len(demoPrompts) + 1) ~> (refreshing = 0)
  /\ [][refreshing # 0 /\ Range(PROMPT_POOL) \subseteq Range(demoPrompts) => refreshing' # 0]_vars

\* The loop runs on a set that holds the whole pool
C9_Witness ==
  /\ refreshing # 0
  /\ Range(PROMPT_POOL) \subseteq Range(demoPrompts)

\* C10: whenever the lists are saved, loadData on the store that results gives
\* back the three lists, entity by entity and field by field.
C10_Theorem ==
  [][saves' # saves =>
       loadDataFrom(localStorage', <<>>, <<>>, <<>>) =
         [thrown |-> FALSE, history |-> history', demoHistory |-> demoHistory',
          allGenerations |-> allGenerations']]_vars

\* A session that read back a store saved with an empty user list
C10_Witness ==
  /\ phase = "running" /\ userEvents >= 1 /\ saves = 1
  /\ history = <<>> /\ demoHistory # <<>> /\ allGenerations = demoHistory
  /\ Len(demoBatch) = demoCount /\ \A i \in DOMAIN demoBatch : demoBatch[i].settled = 0

\* Whether the placeholder card of call c is in the user view
HasPlaceholder(c) == \E k \in DOMAIN historyGrid : historyGrid[k].node = c.call

\* The calls a step starts
Started == {c \in pending' \ pending : c.returned = <<>>}

\* C11 as stated: the placeholder is inserted before the request is issued,
\* and it is removed before any success handling and before the error notice
\* of the same call.
C11_Claim ==
  /\ [][\A c \in Started : historyGrid' # <<>> /\ historyGrid'[1].node = c.call]_vars
  /\ [][\A c \in pending : ResumeSubmit(c) =>
          \A k \in DOMAIN historyGrid' : historyGrid'[k].node # c.call]_vars
  /\ [](\A c \in pending : c.returned = << <<>> >> => ~HasPlaceholder(c))

\* C11, amended: the placeholder is inserted, first in the view, in the step
\* that issues the request; generateWallpaper returns without touching the
\* view, having shown the error notice if the request failed; the call then
\* resumes and after that step, which holds all success handling, its
\* placeholder is not in the view.
C11_Theorem ==
  /\ [][\A c \in Started :
          /\ historyGrid' # <<>> /\ historyGrid'[1].node = c.call /\ historyGrid'[1].isLoading
          /\ UNCHANGED << lists, localStorage, toast >>]_vars
  /\ [][\A c \in pending : \A r \in ImageResults :
          SettleSubmit(c, r) =>
            /\ historyGrid' = historyGrid
            /\ UNCHANGED << lists, localStorage >>
            /\ r = <<>> => toast']_vars
  /\ [][\A c \in pending :
          ResumeSubmit(c) =>
            /\ \A k \in DOMAIN historyGrid' : historyGrid'[k].node # c.call
            /\ c.returned[1] = <<>> => toast /\ toast' /\ UNCHANGED << lists, localStorage >>]_vars

\* The notice of a failed call is shown and its placeholder is still in the view
C11_Witness ==
  \E c \in pending : c.returned = << <<>> >> /\ toast /\ HasPlaceholder(c)

\* The request of the batch that asked for the prompt of entity w
RequestOf(w) == CHOOSE j \in DOMAIN demoBatch : demoBatch[j].prompt = w.prompt

\* The entities a step appends to the demo list
NewDemos == SubSeq(demoHistory', Len(demoHistory) + 1, Len(demoHistory'))

C13_Claim == \A c \in pending : c.returned = <<>> => HasPlaceholder(c)

\* C14: the entity a call commits has the aspect ratio of the request of
\* that call.
C14_Claim ==
  [][\A c \in pending :
       ResumeSubmit(c) /\ c.returned[1] # <<>> =>
         history'[Len(history')].aspectRatio = c.request.aspectRatio]_vars

\* C15: startup puts one placeholder per prompt of the batch in the demo view
\* in the step that issues the requests, and they stay while the batch is in
\* flight; as long as a request of the batch is outstanding no step changes
\* the demo list or the demo entities of the combined list; the step that
\* settles the last request appends all successes to both lists as one block.
C15_Theorem ==
  /\ [](demoBatch # <<>> =>
          /\ Len(demoGrid) = Len(demoBatch)
          /\ \A k \in DOMAIN demoGrid : demoGrid[k].isLoading)
  /\ [][phase = "boot" /\ phase' = "running" =>
          /\ Len(demoBatch') = demoCount
          /\ \A i \in DOMAIN demoBatch' : demoBatch'[i].settled = 0
          /\ Len(demoGrid') = demoCount]_vars
  /\ [][demoBatch # <<>> /\ demoBatch' # <<>> =>
          /\ demoHistory' = demoHistory
          /\ OfSource(allGenerations', "demo") = OfSource(allGenerations, "demo")]_vars
  /\ [][\A i \in DOMAIN demoBatch : \A r \in ImageResults :
          SettleDemo(i, r) /\ demoBatch' = <<>> =>
            /\ demoHistory' = demoHistory \o NewDemos
            /\ allGenerations' = allGenerations \o NewDemos
            /\ \A k \in DOMAIN demoGrid' : ~demoGrid'[k].isLoading]_vars

\* A user entity was committed while the batch was in flight, and the
\* entities of the batch follow it as one block
C15_Witness ==
  /\ phase = "running" /\ userEvents = 1 /\ demoBatch = <<>> /\ saves = 2
  /\ Len(allGenerations) = 1 + demoCount
  /\ allGenerations[1].source = "user"
  /\ demoHistory = SubSeq(allGenerations, 2, 1 + demoCount)

\* The timestamps of list never go down
Chronological(list) ==
  \A i, j \in DOMAIN list : i < j => list[i].timestamp <= list[j].timestamp

\* C16: along the user list and along the demo list the timestamps never go
\* down.
C16_Claim == Chronological(history) /\ Chronological(demoHistory)

\* s is the beginning of t
IsPrefix(s, t) == Len(s) <= Len(t) /\ SubSeq(t, 1, Len(s)) = s

\* C17: between two steps of a running page each of the three lists is the
\* beginning of its next value.
C17_Theorem ==
  [][phase = "running" /\ phase' = "running" =>
       /\ IsPrefix(history, history')
       /\ IsPrefix(demoHistory, demoHistory')
       /\ IsPrefix(allGenerations, allGenerations')]_vars

\* Lists that were loaded at startup have grown since
C17_Witness ==
  /\ phase = "running" /\ userEvents = MaxUserEvents /\ saves = 3
  /\ Len(history) = 1 /\ Len(demoHistory) >= 2 /\ pending = {} /\ demoBatch = <<>>
  /\ allGenerations[Len(allGenerations)].source = "demo"

\* The list stored under key k, an absent key counting as the empty list
StoredList(k) == IF k \in DOMAIN localStorage THEN JSONparse(localStorage[k]) ELSE [ok |-> TRUE, val |-> <<>>]

\* C18: once startup has loaded the store, between any two steps the lists
\* stored under the three keys are the lists in memory; before that the lists
\* in memory are empty.
C18_Theorem ==
  IF phase = "boot"
    THEN history = <<>> /\ demoHistory = <<>> /\ allGenerations = <<>>
    ELSE /\ StoredList("userHistory") = [ok |-> TRUE, val |-> history]
         /\ StoredList("demoHistory") = [ok |-> TRUE, val |-> demoHistory]
         /\ StoredList("allGenerations") = [ok |-> TRUE, val |-> allGenerations]

\* Requests of a submit and of the batch are pending in a session that
\* loaded entities
C18_Witness ==
  /\ phase = "running" /\ demoHistory # <<>> /\ allGenerations # <<>>
  /\ \E c \in pending : c.returned = <<>>
  /\ \E i \in DOMAIN demoBatch : demoBatch[i].settled = 0

\* The placeholder of call n is in the user view
UserPlaceholder(n) == \E k \in DOMAIN historyGrid : historyGrid[k].node = n

\* Some placeholder is in the demo view
DemoPlaceholder == \E k \in DOMAIN demoGrid : demoGrid[k].isLoading

\* C19: the step in which a call resumes after its request removes the
\* placeholder of the call, whatever the outcome; the step that settles the
\* last request of the batch clears the placeholders of the demo view; and,
\* when every request settles, a page that shows a placeholder in either view
\* is at some later time without any.
C19_Theorem ==
  /\ [][\A c \in pending : ResumeSubmit(c) => ~UserPlaceholder(c.call)']_vars
  /\ [][demoBatch # <<>> /\ demoBatch' = <<>> => ~DemoPlaceholder']_vars
  /\ (DemoPlaceholder \/ \E n \in 1..MaxUserEvents : UserPlaceholder(n))
       ~> (~DemoPlaceholder /\ \A n \in 1..MaxUserEvents : ~UserPlaceholder(n))

\* The request of a submit and all requests of the batch have failed, and no
\* placeholder is left
C19_Witness ==
  /\ phase = "running" /\ userEvents = 1 /\ ~IsBlank(promptInput)
  /\ pending = {} /\ demoBatch = <<>>
  /\ history = <<>> /\ demoHistory = <<>>
  /\ historyGrid = <<>> /\ demoGrid = <<>>

\* Some request is in flight
InFlight ==
  \/ \E c \in pending : c.returned = <<>>
  \/ \E i \in DOMAIN demoBatch : demoBatch[i].settled = 0

\* C20: the generate button is disabled exactly when a request is in flight.
C20_Claim == disabled <=> InFlight
====
